---- MODULE Spec2Model ----
(***************************************************************************)
(* Model of ortho/OrthomclToolbox.py: Cluster, Group and MultiGroups.      *)
(* Text is modelled as a sequence of one-character strings, so that the    *)
(* splitting, stripping, joining and substring counting of the source are  *)
(* computed and not assumed.                                               *)
(***************************************************************************)
EXTENDS Integers, Sequences, FiniteSets, TLC

(***************************************************************************)
(* Bounds of the model.                                                    *)
(***************************************************************************)
\* longest record enumerated exhaustively for the Cluster specification
MaxRecLen == 4
\* largest threshold value passed to apply_filter / Group / MultiGroups
MaxThreshold == 2
\* most lines in one groups file
MaxLines == 2
\* most entries in the groups_files list given to MultiGroups
MaxFiles == 2
\* most apply_filter calls made on one Cluster in the Cluster specification
MaxFilterCalls == 2

(***************************************************************************)
(* Python built-ins used by the source, on sequences of characters.        *)
(***************************************************************************)
\* the characters str.strip() and str.split() treat as whitespace
IsSpace(c) == c \in {" ", "\n"}

RECURSIVE split_from(_, _, _, _, _)
split_from(s, sep, i, cur, acc) ==
    IF i > Len(s) THEN Append(acc, cur)
    ELSE IF s[i] = sep THEN split_from(s, sep, i + 1, <<>>, Append(acc, cur))
    ELSE split_from(s, sep, i + 1, Append(cur, s[i]), acc)

\* str.split(sep) for a one-character separator: every separator splits
split(s, sep) == split_from(s, sep, 1, <<>>, <<>>)

RECURSIVE lstrip(_)
lstrip(s) == IF s # <<>> /\ IsSpace(Head(s)) THEN lstrip(Tail(s)) ELSE s

RECURSIVE rstrip(_)
rstrip(s) ==
    IF s # <<>> /\ IsSpace(s[Len(s)]) THEN rstrip(SubSeq(s, 1, Len(s) - 1)) ELSE s

\* str.strip()
strip(s) == rstrip(lstrip(s))

RECURSIVE split_ws_from(_, _, _, _)
split_ws_from(s, i, cur, acc) ==
    IF i > Len(s) THEN (IF cur = <<>> THEN acc ELSE Append(acc, cur))
    ELSE IF IsSpace(s[i])
         THEN split_ws_from(s, i + 1, <<>>, IF cur = <<>> THEN acc ELSE Append(acc, cur))
         ELSE split_ws_from(s, i + 1, Append(cur, s[i]), acc)

\* str.split() without a separator: runs of whitespace split, no empty token
split_ws(s) == split_ws_from(s, 1, <<>>, <<>>)

RECURSIVE join(_, _)
\* sep.join(parts)
join(sep, parts) ==
    IF parts = <<>> THEN <<>>
    ELSE IF Len(parts) = 1 THEN parts[1]
    ELSE parts[1] \o sep \o join(sep, Tail(parts))

\* repr() of a string without quote, backslash or unprintable characters
repr(s) == <<"'">> \o s \o <<"'">>

\* str() of a list of strings: "['a', 'b']"
str_list(parts) ==
    <<"[">> \o join(<<",", " ">>, [i \in 1..Len(parts) |-> repr(parts[i])]) \o <<"]">>

\* text[i .. i+Len(sub)-1] = sub
OccursAt(text, sub, i) ==
    /\ i + Len(sub) - 1 <= Len(text)
    /\ \A k \in 1..Len(sub) : text[i + k - 1] = sub[k]

RECURSIVE count_from(_, _, _)
count_from(text, sub, i) ==
    IF i + Len(sub) - 1 > Len(text) THEN 0
    ELSE IF OccursAt(text, sub, i)
         THEN 1 + count_from(text, sub, i + (IF Len(sub) = 0 THEN 1 ELSE Len(sub)))
         ELSE count_from(text, sub, i + 1)

\* str.count(sub): non-overlapping occurrences, scanning left to right
count(text, sub) == count_from(text, sub, 1)

\* max() of a non-empty set of integers
max(S) == CHOOSE m \in S : \A x \in S : x <= m

RECURSIVE digits(_)
digits(n) ==
    IF n < 10 THEN <<<<"0">>, <<"1">>, <<"2">>, <<"3">>, <<"4">>,
                      <<"5">>, <<"6">>, <<"7">>, <<"8">>, <<"9">>>>[n + 1]
    ELSE digits(n \div 10) \o digits(n % 10)

\* str() of a non-negative integer
str_int(n) == digits(n)


(***************************************************************************)
(* class Cluster                                                           *)
(***************************************************************************)
\* a Cluster object before parse_string ran (Cluster.__init__, attributes
\* name, sequences, species_frequency, gene_compliant, species_compliant);
\* filter_calls counts the apply_filter calls made on the object
NewCluster ==
    [name |-> <<>>, sequences |-> <<>>, species_frequency |-> <<>>,
     gene_compliant |-> "None", species_compliant |-> "None", filter_calls |-> 0]

\* C8 mutant: field.split("|")[0], the first field taken for the species
species_field_first(field) == split(field, "|")[1]

\* field.split("|")[1], the species of one sequence identifier
species_field(field) == split(field, "|")[2]

\* C9 mutant: the sequences whose species field is species are counted
species_count_exact(sequences, species) ==
    Cardinality({i \in 1..Len(sequences) : species_field(sequences[i]) = species})

\* str(self.sequences).count(species)
species_count(sequences, species) == count(str_list(sequences), species)

\* Cluster.parse_string: the object after the call and the exception raised
parse_string(self, cluster_string) ==
    LET fields == split(cluster_string, ":") IN
    IF Len(fields) < 2
    THEN [raised |-> "IndexError", self |-> [self EXCEPT !.name = strip(fields[1])]]
    ELSE LET name == strip(fields[1])
             sequences == split_ws(strip(fields[2]))
             named == [self EXCEPT !.name = name, !.sequences = sequences]
         IN IF \E i \in 1..Len(sequences) : Len(split(sequences[i], "|")) < 2
            THEN [raised |-> "IndexError", self |-> named]
            ELSE LET species_list == {species_field(sequences[i]) : i \in 1..Len(sequences)}
                 IN [raised |-> "None",
                     self |-> [named EXCEPT !.species_frequency =
                                 [species \in species_list |->
                                     species_count(sequences, species)]]]

\* C10 mutant: the species test reads <= where the source reads >=
apply_filter_species_at_most(self, gene_threshold, species_threshold) ==
    LET species_compliant ==
            IF Cardinality(DOMAIN self.species_frequency) <= species_threshold
            THEN "True" ELSE "False"
        values == {self.species_frequency[s] : s \in DOMAIN self.species_frequency}
        counted == [self EXCEPT !.species_compliant = species_compliant,
                                !.filter_calls = @ + 1]
    IN IF values = {}
       THEN [raised |-> "ValueError", self |-> counted]
       ELSE [raised |-> "None",
             self |-> [counted EXCEPT !.gene_compliant =
                          IF max(values) <= gene_threshold THEN "True" ELSE "False"]]

\* Cluster.apply_filter: the object after the call and the exception raised
apply_filter(self, gene_threshold, species_threshold) ==
    LET species_compliant ==
            IF Cardinality(DOMAIN self.species_frequency) >= species_threshold
            THEN "True" ELSE "False"
        values == {self.species_frequency[s] : s \in DOMAIN self.species_frequency}
        counted == [self EXCEPT !.species_compliant = species_compliant,
                                !.filter_calls = @ + 1]
    IN IF values = {}
       THEN [raised |-> "ValueError", self |-> counted]
       ELSE [raised |-> "None",
             self |-> [counted EXCEPT !.gene_compliant =
                          IF max(values) <= gene_threshold THEN "True" ELSE "False"]]

\* Cluster(line_string): Cluster.__init__ runs parse_string on a fresh object
Cluster(line_string) == parse_string(NewCluster, line_string)

(***************************************************************************)
(* Inputs: the records given to Cluster and the lines of the groups files. *)
(***************************************************************************)
\* the characters of the exhaustively enumerated records
Chars == {"a", "|", ":", " "}

\* every text of at most n characters over Chars
Texts(n) == UNION {[1..k -> Chars] : k \in 0..n}

\* the record of the parsing example
ExampleG0001 ==
    <<"G", "0", "0", "0", "1", ":", " ", "s", "e", "q", "A", "|", "s", "p",
      "1", "|", "x", " ", "s", "e", "q", "B", "|", "s", "p", "2", "|", "y",
      " ", "s", "e", "q", "B", "|", "s", "p", "1", "|", "z">>

\* first line of the end-to-end scenario
ExampleCluster1 ==
    <<"C", "l", "u", "s", "t", "e", "r", "1", ":", " ", "s", "e", "q", "1",
      "|", "H", "s", "a", "p", "|", "1", " ", "s", "e", "q", "2", "|", "M",
      "m", "u", "s", "|", "1", " ", "s", "e", "q", "3", "|", "H", "s", "a",
      "p", "|", "2">>

\* second line of the end-to-end scenario
ExampleCluster2 ==
    <<"C", "l", "u", "s", "t", "e", "r", "2", ":", " ", "s", "e", "q", "4",
      "|", "H", "s", "a", "p", "|", "1">>

\* one species name inside another
ExampleHsap2 ==
    <<"G", "2", ":", " ", "s", "1", "|", "H", "s", "a", "p", "|", "1", " ",
      "s", "2", "|", "H", "s", "a", "p", "2", "|", "1">>

\* two species, one sequence each
LineTwoSpecies ==
    <<"A", ":", "x", "|", "s", " ", "y", "|", "t">>

\* one species with two sequences
LineOneSpecies ==
    <<"B", ":", "x", "|", "s", " ", "y", "|", "s">>

\* a name and an empty sequence list
LineNoSequences ==
    <<"E", ":">>

\* no colon
LineNoColon ==
    <<"b", "a", "d">>

\* a sequence identifier without a species field
LineNoPipe ==
    <<"D", ":", "x", "y">>

\* a second colon, followed by a token without a species field
LineTwoColons ==
    <<"C", ":", "x", "|", "s", " ", ":", "y">>

\* the records the Cluster specification constructs a Cluster from
Records ==
    Texts(MaxRecLen) \cup {ExampleG0001, ExampleCluster1, ExampleCluster2, ExampleHsap2}

\* the lines a groups file given to Group may hold
GroupLines ==
    {LineTwoSpecies, LineOneSpecies, LineNoSequences, LineNoColon, LineNoPipe,
     LineTwoColons}

\* every file of at most MaxLines lines drawn from lines
FilesOf(lines) == UNION {[1..k -> lines] : k \in 0..MaxLines}

\* the groups files given to MultiGroups: empty, of one or two clusters, and
\* with a line that raises, first or after a cluster
MultiGroupsFiles ==
    {<<>>, <<LineTwoSpecies>>, <<LineTwoSpecies, LineTwoSpecies>>,
     <<LineNoSequences>>, <<LineNoColon>>, <<LineTwoSpecies, LineNoColon>>}

\* the file names given to Group and MultiGroups
Paths == {<<"p">>, <<"q">>}

\* gene_threshold=None, species_threshold=None
NoThreshold == -1

Thresholds == {NoThreshold} \cup (0..MaxThreshold)

(***************************************************************************)
(* class Group                                                             *)
(***************************************************************************)
\* Group.__init__ up to the call of __parse_groups, and self.name set by it
NewGroup(groups_file, gene_th, species_th) ==
    [name |-> groups_file, gene_threshold |-> gene_th,
     species_threshold |-> species_th, groups |-> <<>>]

\* C6 mutant: the Cluster is appended whether or not the thresholds are set
parse_groups_line_unfiltered(self, text) ==
    LET made == Cluster(text) IN
    IF made.raised # "None"
    THEN [raised |-> made.raised, self |-> self, cluster_object |-> NewCluster]
    ELSE [raised |-> "None", self |-> [self EXCEPT !.groups = Append(@, made.self)],
          cluster_object |-> made.self]

RECURSIVE refilter(_, _, _)
\* apply_filter called again on every Cluster of groups
refilter(groups, gene_th, species_th) ==
    IF groups = <<>> THEN <<>>
    ELSE <<apply_filter(Head(groups), gene_th, species_th).self>>
            \o refilter(Tail(groups), gene_th, species_th)

\* C11 mutant: each line filters the Clusters retained before it once more
parse_groups_line_refilter(self, text) ==
    LET made == Cluster(text) IN
    IF made.raised # "None"
    THEN [raised |-> made.raised, self |-> self, cluster_object |-> NewCluster]
    ELSE IF self.species_threshold # NoThreshold /\ self.gene_threshold # NoThreshold
         THEN LET filtered == apply_filter(made.self, self.gene_threshold,
                                           self.species_threshold)
              IN IF filtered.raised # "None"
                 THEN [raised |-> filtered.raised, self |-> self,
                       cluster_object |-> filtered.self]
                 ELSE [raised |-> "None",
                       self |-> [self EXCEPT !.groups =
                                    Append(refilter(@, self.gene_threshold,
                                                    self.species_threshold),
                                           filtered.self)],
                       cluster_object |-> filtered.self]
         ELSE [raised |-> "None", self |-> self, cluster_object |-> made.self]

\* the body of the loop of Group.__parse_groups for one line: the Group
\* after it, the Cluster built and the exception raised
parse_groups_line(self, text) ==
    LET made == Cluster(text) IN
    IF made.raised # "None"
    THEN [raised |-> made.raised, self |-> self, cluster_object |-> NewCluster]
    ELSE IF self.species_threshold # NoThreshold /\ self.gene_threshold # NoThreshold
         THEN LET filtered == apply_filter(made.self, self.gene_threshold,
                                           self.species_threshold)
              IN IF filtered.raised # "None"
                 THEN [raised |-> filtered.raised, self |-> self,
                       cluster_object |-> filtered.self]
                 ELSE [raised |-> "None",
                       self |-> [self EXCEPT !.groups = Append(@, filtered.self)],
                       cluster_object |-> filtered.self]
         ELSE [raised |-> "None", self |-> self, cluster_object |-> made.self]

RECURSIVE group_statistics_loop(_, _, _)
\* the for loop of Group.basic_group_statistics from cluster i on, the
\* counters being acc = <<total_sequence_num, clusters_species_threshold,
\* clusters_gene_threshold, clusters_all_threshold>>
group_statistics_loop(groups, i, acc) ==
    IF i > Len(groups) THEN acc
    ELSE LET cl == groups[i] IN
         group_statistics_loop(groups, i + 1,
            <<acc[1] + Len(cl.sequences),
              acc[2] + (IF cl.species_compliant = "True" THEN 1 ELSE 0),
              acc[3] + (IF cl.gene_compliant = "True" THEN 1 ELSE 0),
              acc[4] + (IF cl.species_compliant = "True" /\ cl.gene_compliant = "True"
                        THEN 1 ELSE 0)>>)

\* C3 mutant: the gene count is returned before the species count
basic_group_statistics_gene_first(self) ==
    LET total_cluster_num == Len(self.groups)
        acc == group_statistics_loop(self.groups, 1, <<0, 0, 0, 0>>)
    IN <<total_cluster_num, acc[1], acc[3], acc[2], acc[4]>>

\* Group.basic_group_statistics
basic_group_statistics(self) ==
    LET total_cluster_num == Len(self.groups)
        acc == group_statistics_loop(self.groups, 1, <<0, 0, 0, 0>>)
    IN <<total_cluster_num, acc[1], acc[2], acc[3], acc[4]>>

\* C2 mutant: the gene flag is not tested
export_selected_species_only(cl) == cl.species_compliant = "True"

\* the test of Group.export_filtered_group on one cluster
export_selected(cl) == cl.species_compliant = "True" /\ cl.gene_compliant = "True"

\* "%s: %s\n" % (cluster.name, " ".join(cluster.sequences))
export_line(cl) == cl.name \o <<":", " ">> \o join(<<" ">>, cl.sequences) \o <<"\n">>

RECURSIVE export_loop(_, _, _)
export_loop(groups, i, written) ==
    IF i > Len(groups) THEN written
    ELSE export_loop(groups, i + 1,
            IF export_selected(groups[i]) THEN Append(written, export_line(groups[i]))
            ELSE written)

\* Group.export_filtered_group: the lines written to the output file
export_filtered_group(self) == export_loop(self.groups, 1, <<>>)

(***************************************************************************)
(* class MultiGroups                                                       *)
(***************************************************************************)
\* statistics_storage[key] = value on an OrderedDict kept as a sequence of
\* <<key, value>> pairs: a key already present keeps its place
ordered_dict_set(storage, key, value) ==
    IF \E k \in 1..Len(storage) : storage[k][1] = key
    THEN [k \in 1..Len(storage) |->
            IF storage[k][1] = key THEN <<key, value>> ELSE storage[k]]
    ELSE Append(storage, <<key, value>>)

RECURSIVE statistics_storage_loop(_, _, _)
\* the first loop of MultiGroups.basic_multigroup_statistics
statistics_storage_loop(groups, i, storage) ==
    IF i > Len(groups) THEN storage
    ELSE statistics_storage_loop(groups, i + 1,
            ordered_dict_set(storage, groups[i].name, basic_group_statistics(groups[i])))

\* the first line MultiGroups.basic_multigroup_statistics writes
statistics_header ==
    <<"G", "r", "o", "u", "p", " ", "f", "i", "l", "e", ";", " ", "T", "o",
      "t", "a", "l", " ", "c", "l", "u", "s", "t", "e", "r", "s", ";", " ",
      "T", "o", "t", "a", "l", " ", "s", "e", "q", "u", "e", "n", "c", "e",
      "s", ";", " ", "C", "l", "u", "s", "t", "e", "r", "s", " ", "b", "e",
      "l", "o", "w", " ", "g", "e", "n", "e", " ", "t", "h", "r", "e", "s",
      "h", "o", "l", "d", ";", " ", "C", "l", "u", "s", "t", "e", "r", "s",
      " ", "a", "b", "o", "v", "e", " ", "s", "p", "e", "c", "i", "e", "s",
      " ", "t", "h", "r", "e", "s", "h", "o", "l", "d", ";", " ", "C", "l",
      "u", "s", "t", "e", "r", "s", " ", "b", "e", "l", "o", "w", " ", "g",
      "e", "n", "e", " ", "a", "n", "d", " ", "a", "b", "o", "v", "e", " ",
      "s", "p", "e", "c", "i", "e", "s", " ", "t", "h", "r", "e", "s", "h",
      "o", "l", "d", "s", "\n">>

\* "%s; %s\n" % (group, ";".join([str(x) for x in vals]))
statistics_row(key, vals) ==
    key \o <<";", " ">> \o join(<<";">>, [k \in 1..Len(vals) |-> str_int(vals[k])])
        \o <<"\n">>

\* MultiGroups.basic_multigroup_statistics: the lines written to the output file
basic_multigroup_statistics(groups) ==
    LET statistics_storage == statistics_storage_loop(groups, 1, <<>>) IN
    <<statistics_header>> \o
        [k \in 1..Len(statistics_storage) |->
            statistics_row(statistics_storage[k][1], statistics_storage[k][2])]

(***************************************************************************)
(* State.                                                                  *)
(***************************************************************************)
VARIABLES
    caller,             \* the constructor the program calls: "Cluster", "Group" or "MultiGroups"
    groups_files,       \* the list of file names given to MultiGroups (one name for Group)
    gene_threshold,     \* the gene_threshold argument
    species_threshold,  \* the species_threshold argument
    pc,                 \* where the program is
    raised,             \* the exception that ended the program, "None" if none
    multiple_groups,    \* MultiGroups.multiple_groups
    group,              \* the Group object being constructed, then the one returned
    groups_file_handle, \* the file object opened last: its lines, how many were
                        \* read and whether it is closed
    line,               \* the loop variable of __parse_groups; the argument of Cluster
    cluster_object,     \* the Cluster built last
    filter_log,         \* the last two apply_filter calls made by the program itself
    statistics,         \* what basic_group_statistics returned last, and for which Group
    filtered_groups,    \* the file export_filtered_group wrote last, and for which Group
    multigroup_base_statistics  \* the file basic_multigroup_statistics wrote

vars ==
    <<caller, groups_files, gene_threshold, species_threshold, pc, raised,
      multiple_groups, group, groups_file_handle, line, cluster_object,
      filter_log, statistics, filtered_groups, multigroup_base_statistics>>

\* no file object
NoFile == [lines |-> <<>>, read |-> 0, closed |-> TRUE]

\* the number of the line __parse_groups read last from the open file
lineno == groups_file_handle.read

\* no Group object
NoGroup == NewGroup(<<>>, NoThreshold, NoThreshold)

\* the Group objects the program holds once construction is over
Objects == IF caller = "Group" THEN <<group>> ELSE multiple_groups

\* the part of the state the three specifications start alike
InitCommon ==
    /\ raised = "None"
    /\ multiple_groups = <<>>
    /\ group = NoGroup
    /\ groups_file_handle = NoFile
    /\ cluster_object = NewCluster
    /\ filter_log = <<>>
    /\ statistics = [group |-> 0, value |-> <<>>]
    /\ filtered_groups = [group |-> 0, lines |-> <<>>]
    /\ multigroup_base_statistics = [written |-> FALSE, lines |-> <<>>]

(***************************************************************************)
(* The program constructs one Cluster and calls apply_filter on it.        *)
(***************************************************************************)
InitCluster ==
    /\ caller = "Cluster"
    /\ pc = "Cluster"
    /\ line \in Records
    /\ groups_files = <<>>
    /\ gene_threshold = NoThreshold
    /\ species_threshold = NoThreshold
    /\ InitCommon

\* Cluster(line)
ClusterInit ==
    /\ pc = "Cluster"
    /\ LET made == Cluster(line) IN
        /\ raised' = made.raised
        /\ pc' = IF made.raised = "None" THEN "constructed" ELSE "raised"
        /\ cluster_object' = IF made.raised = "None" THEN made.self ELSE cluster_object
    /\ UNCHANGED <<caller, groups_files, gene_threshold, species_threshold,
                   multiple_groups, group, groups_file_handle, line, filter_log,
                   statistics, filtered_groups, multigroup_base_statistics>>

\* cluster_object.apply_filter(gene_th, species_th)
ClusterApplyFilter(gene_th, species_th) ==
    /\ pc = "constructed"
    /\ cluster_object.filter_calls < MaxFilterCalls
    /\ LET filtered == apply_filter(cluster_object, gene_th, species_th)
           call == [gene_threshold |-> gene_th, species_threshold |-> species_th,
                    raised |-> filtered.raised,
                    gene_compliant |-> filtered.self.gene_compliant,
                    species_compliant |-> filtered.self.species_compliant]
       IN
        /\ cluster_object' = filtered.self
        /\ raised' = filtered.raised
        /\ pc' = IF filtered.raised = "None" THEN "constructed" ELSE "raised"
        /\ filter_log' = IF filter_log = <<>> THEN <<call>>
                         ELSE <<filter_log[Len(filter_log)], call>>
    /\ UNCHANGED <<caller, groups_files, gene_threshold, species_threshold,
                   multiple_groups, group, groups_file_handle, line, statistics, filtered_groups, multigroup_base_statistics>>

NextCluster ==
    \/ ClusterInit
    \/ \E gene_th \in 0..MaxThreshold, species_th \in 0..MaxThreshold :
          ClusterApplyFilter(gene_th, species_th)

SpecCluster == InitCluster /\ [][NextCluster]_vars

(***************************************************************************)
(* The program constructs a Group, or a MultiGroups, and calls its methods. *)
(***************************************************************************)
\* Group(path, gene_threshold, species_threshold)
InitGroup ==
    /\ caller = "Group"
    /\ pc = "Group"
    /\ groups_files \in {<<path>> : path \in Paths}
    /\ gene_threshold \in Thresholds
    /\ species_threshold \in Thresholds
    /\ line = <<>>
    /\ InitCommon

\* MultiGroups(groups_files, gene_threshold, species_threshold)
Init ==
    /\ caller = "MultiGroups"
    /\ pc = "MultiGroups"
    /\ groups_files \in UNION {[1..k -> Paths] : k \in 0..MaxFiles}
    /\ gene_threshold \in Thresholds
    /\ species_threshold \in Thresholds
    /\ line = <<>>
    /\ InitCommon

\* MultiGroups.__init__: the head of the loop over groups_files
MultiGroupsInit ==
    /\ pc = "MultiGroups"
    /\ pc' = IF Len(multiple_groups) < Len(groups_files) THEN "Group" ELSE "ready"
    /\ UNCHANGED <<caller, groups_files, gene_threshold, species_threshold, raised,
                   multiple_groups, group, groups_file_handle, line, cluster_object, filter_log, statistics, filtered_groups,
                   multigroup_base_statistics>>

\* Group.__init__ and the first two statements of __parse_groups: open() either
\* raises or yields the lines of the file
GroupInit ==
    /\ pc = "Group"
    /\ group' = NewGroup(groups_files[Len(multiple_groups) + 1], gene_threshold,
                         species_threshold)
    /\ \/ /\ raised' = "IOError"
          /\ pc' = "raised"
          /\ UNCHANGED groups_file_handle
       \/ /\ \E lines \in (IF caller = "Group" THEN FilesOf(GroupLines)
                                        ELSE MultiGroupsFiles) :
                groups_file_handle' = [lines |-> lines, read |-> 0, closed |-> FALSE]
          /\ pc' = "parse_groups"
          /\ UNCHANGED raised
    /\ UNCHANGED <<caller, groups_files, gene_threshold, species_threshold,
                   multiple_groups, line, cluster_object, filter_log,
                   statistics, filtered_groups, multigroup_base_statistics>>

\* one iteration of the loop of __parse_groups
ReadLine ==
    /\ pc = "parse_groups"
    /\ groups_file_handle.read < Len(groups_file_handle.lines)
    /\ LET text == groups_file_handle.lines[groups_file_handle.read + 1] \o <<"\n">>
           done == parse_groups_line(group, text)
       IN
        /\ line' = text
        /\ groups_file_handle' = [groups_file_handle EXCEPT !.read = @ + 1]
        /\ group' = done.self
        /\ cluster_object' = done.cluster_object
        /\ raised' = done.raised
        /\ pc' = IF done.raised = "None" THEN "parse_groups" ELSE "raised"
    /\ UNCHANGED <<caller, groups_files, gene_threshold, species_threshold,
                   multiple_groups, filter_log, statistics, filtered_groups,
                   multigroup_base_statistics>>

\* the loop of __parse_groups ends and Group.__init__ returns; MultiGroups
\* appends the Group to multiple_groups.  __parse_groups never calls close():
\* the file object is left to the interpreter, which finalizes it when it
\* reclaims the local groups_file_handle, at the return or later.  An
\* exception leaving the loop keeps the frame, and the open file, in its
\* traceback.
GroupReturn ==
    /\ pc = "parse_groups"
    /\ groups_file_handle.read = Len(groups_file_handle.lines)
    /\ line' = <<>>
    /\ cluster_object' = NewCluster
    /\ IF caller = "MultiGroups"
       THEN /\ multiple_groups' = Append(multiple_groups, group)
            /\ group' = NoGroup
            /\ pc' = "MultiGroups"
       ELSE /\ pc' = "ready"
            /\ UNCHANGED <<multiple_groups, group>>
    /\ \E reclaimed \in BOOLEAN :
            groups_file_handle' = [groups_file_handle EXCEPT !.closed = reclaimed]
    /\ UNCHANGED <<caller, groups_files, gene_threshold, species_threshold, raised,
                   filter_log, statistics, filtered_groups,
                   multigroup_base_statistics>>

\* Objects[i].basic_group_statistics()
BasicGroupStatistics(i) ==
    /\ pc = "ready"
    /\ statistics' = [group |-> i, value |-> basic_group_statistics(Objects[i])]
    /\ UNCHANGED <<caller, groups_files, gene_threshold, species_threshold, pc, raised,
                   multiple_groups, group, groups_file_handle, line, cluster_object, filter_log, filtered_groups,
                   multigroup_base_statistics>>

\* Objects[i].export_filtered_group()
ExportFilteredGroup(i) ==
    /\ pc = "ready"
    /\ filtered_groups' = [group |-> i, lines |-> export_filtered_group(Objects[i])]
    /\ UNCHANGED <<caller, groups_files, gene_threshold, species_threshold, pc, raised,
                   multiple_groups, group, groups_file_handle, line, cluster_object, filter_log, statistics, multigroup_base_statistics>>

\* MultiGroups.basic_multigroup_statistics()
BasicMultigroupStatistics ==
    /\ pc = "ready"
    /\ caller = "MultiGroups"
    /\ multigroup_base_statistics' =
          [written |-> TRUE, lines |-> basic_multigroup_statistics(multiple_groups)]
    /\ UNCHANGED <<caller, groups_files, gene_threshold, species_threshold, pc, raised,
                   multiple_groups, group, groups_file_handle, line, cluster_object, filter_log, statistics, filtered_groups>>

NextGroup ==
    \/ GroupInit
    \/ ReadLine
    \/ GroupReturn
    \/ \E i \in 1..Len(Objects) : BasicGroupStatistics(i)
    \/ \E i \in 1..Len(Objects) : ExportFilteredGroup(i)

SpecGroup == InitGroup /\ [][NextGroup]_vars

Next ==
    \/ MultiGroupsInit
    \/ NextGroup
    \/ BasicMultigroupStatistics

Spec == Init /\ [][Next]_vars

(***************************************************************************)
(* Either of the programs that construct a Cluster or a Group.             *)
(***************************************************************************)
InitClusterGroup == InitCluster \/ InitGroup

NextClusterGroup == NextCluster \/ NextGroup

SpecClusterGroup == InitClusterGroup /\ [][NextClusterGroup]_vars

(***************************************************************************)
(* Either of the programs that construct a Group or a MultiGroups.         *)
(***************************************************************************)
InitGroupMultiGroups == InitGroup \/ Init

SpecGroupMultiGroups == InitGroupMultiGroups /\ [][Next]_vars

(***************************************************************************)
(* Notions the claims are stated with, defined without the operators of    *)
(* the model above.                                                        *)
(***************************************************************************)
\* the positions of character c in text
PositionsOf(text, c) == {i \in 1..Len(text) : text[i] = c}

\* the least element of a non-empty set of integers
Least(S) == CHOOSE m \in S : \A x \in S : m <= x

\* the text before the first colon
BeforeFirstColon(text) == SubSeq(text, 1, Least(PositionsOf(text, ":")) - 1)

\* the whole text after the first colon
AfterFirstColon(text) == SubSeq(text, Least(PositionsOf(text, ":")) + 1, Len(text))

\* the second |-delimited field of a sequence identifier that has one
SecondField(field) ==
    LET first == Least(PositionsOf(field, "|"))
        later == {i \in PositionsOf(field, "|") : i > first}
        stop == IF later = {} THEN Len(field) + 1 ELSE Least(later)
    IN SubSeq(field, first + 1, stop - 1)

\* the record has a colon and every whitespace-separated token after its
\* first colon has at least two |-delimited fields
WellFormed(text) ==
    /\ PositionsOf(text, ":") # {}
    /\ LET tokens == split_ws(AfterFirstColon(text)) IN
       \A i \in 1..Len(tokens) : PositionsOf(tokens[i], "|") # {}

\* the number of sequences of the cluster whose species field is species
SequencesOfSpecies(cl, species) ==
    Cardinality({i \in 1..Len(cl.sequences) : SecondField(cl.sequences[i]) = species})

\* the positions at which sub occurs in text
Occurrences(text, sub) ==
    {i \in 1..(Len(text) - Len(sub) + 1) : SubSeq(text, i, i + Len(sub) - 1) = sub}

\* the most occurrences of sub in text no two of which overlap
NonOverlapping(text, sub) ==
    LET fits(T) == \A x, y \in T : x < y => x + Len(sub) <= y
        sizes == {Cardinality(T) : T \in {U \in SUBSET Occurrences(text, sub) : fits(U)}}
    IN CHOOSE n \in sizes : \A m \in sizes : m <= n

\* the clusters of a Group whose two flags are both True
BothCompliant(g) ==
    {j \in 1..Len(g.groups) :
        g.groups[j].species_compliant = "True" /\ g.groups[j].gene_compliant = "True"}

\* text is "<name>: <sequences joined by single spaces>" and a line end
IsLineOf(text, cl) ==
    LET k == Len(cl.name) IN
    /\ Len(text) >= k + 3
    /\ text[Len(text)] = "\n"
    /\ SubSeq(text, 1, k) = cl.name
    /\ text[k + 1] = ":"
    /\ text[k + 2] = " "
    /\ LET rest == SubSeq(text, k + 3, Len(text) - 1) IN
       IF cl.sequences = <<>> THEN rest = <<>> ELSE split(rest, " ") = cl.sequences

\* every Cluster object of the state
AllClusters ==
    {cluster_object}
        \cup {group.groups[j] : j \in 1..Len(group.groups)}
        \cup UNION {{multiple_groups[i].groups[j] : j \in 1..Len(multiple_groups[i].groups)} :
                      i \in 1..Len(multiple_groups)}

RECURSIVE ClustersOf(_)
\* the Clusters of a sequence of Groups, in the order they were retained
ClustersOf(gs) ==
    IF gs = <<>> THEN <<>> ELSE Head(gs).groups \o ClustersOf(Tail(gs))

\* every Cluster retained so far, the Group under construction last
Retained == ClustersOf(multiple_groups) \o group.groups

\* s is the beginning of t
IsPrefix(s, t) == Len(s) <= Len(t) /\ SubSeq(t, 1, Len(s)) = s

\* the flag apply_filter is to leave for a condition
FlagOf(condition) == IF condition THEN "True" ELSE "False"

(***************************************************************************)
(* Claims.                                                                 *)
(***************************************************************************)
\* C1: basic_multigroup_statistics writes one row more than there are input
\* paths: the header, then for the i-th path a row whose first column is the
\* name of the i-th Group and whose second column is its number of clusters.
\* Violated: two equal paths share one key of statistics_storage.
C1_OneRowPerPath ==
    multigroup_base_statistics.written =>
        LET rows == multigroup_base_statistics.lines IN
        /\ Len(rows) = Len(groups_files) + 1
        /\ rows[1] = statistics_header
        /\ \A i \in 1..Len(groups_files) :
              LET columns == split(rows[i + 1], ";") IN
              /\ columns[1] = groups_files[i]
              /\ columns[1] = multiple_groups[i].name
              /\ strip(columns[2]) = str_int(Len(multiple_groups[i].groups))

\* C2: export_filtered_group writes as many lines as the fifth value of
\* basic_group_statistics on the same Group, and its k-th line is
\* "<name>: <sequences joined by spaces>" of the k-th cluster, in the order of
\* self.groups, whose species_compliant and gene_compliant are both True.
C2_ExportMatchesStatistics ==
    filtered_groups.group # 0 =>
        LET g == Objects[filtered_groups.group]
            out == filtered_groups.lines
        IN
        /\ Len(out) = basic_group_statistics(g)[5]
        /\ \A k \in 1..Len(out) :
              \E j \in BothCompliant(g) :
                 /\ Cardinality({m \in BothCompliant(g) : m < j}) = k - 1
                 /\ IsLineOf(out[k], g.groups[j])

\* C2 witness: an export that wrote some clusters of the Group and left out others
C2_Witness ==
    /\ filtered_groups.group # 0
    /\ Len(filtered_groups.lines) >= 1
    /\ Len(filtered_groups.lines) < Len(Objects[filtered_groups.group].groups)

C4_ApplyFilterTotal ==
    (filter_log # <<>> /\ WellFormed(line)) =>
        LET call == filter_log[Len(filter_log)]
            frequency == cluster_object.species_frequency
        IN
        /\ call.raised = "None"
        /\ call.species_compliant =
              FlagOf(Cardinality(DOMAIN frequency) >= call.species_threshold)
        /\ call.gene_compliant =
              FlagOf(\A s \in DOMAIN frequency : frequency[s] <= call.gene_threshold)

\* C5: a groups file that cannot be opened ends Group with an input error
\* (InputError; the IOError of open() is counted as one here); a line that is
\* not well-formed ends it with a parse error (ParseError; the IndexError of
\* the list indexing is counted as one here) at that line, and no such line
\* is passed over.
\* Violated: a line whose bad token follows a second colon is accepted.
C5_ParseErrorAtFirstBadLine ==
    /\ (pc = "raised" /\ group.name # <<>> /\ lineno = 0)
          => raised \in {"InputError", "IOError"}
    /\ (pc = "raised" /\ lineno >= 1 /\ ~WellFormed(line))
          => raised \in {"ParseError", "IndexError"}
    /\ (pc \in {"parse_groups", "ready"}) =>
          \A k \in 1..lineno : WellFormed(groups_file_handle.lines[k])

C7_SplitOnFirstColon ==
    pc = "constructed" =>
        /\ cluster_object.name = strip(BeforeFirstColon(line))
        /\ cluster_object.sequences = split_ws(AfterFirstColon(line))

\* C8: the keys of species_frequency of every Cluster are exactly the second
\* |-delimited fields of its sequences, also after apply_filter,
\* basic_group_statistics and export_filtered_group.
C8_SpeciesKeys ==
    \A cl \in AllClusters :
        DOMAIN cl.species_frequency =
            {SecondField(cl.sequences[i]) : i \in 1..Len(cl.sequences)}

\* C8 witness: a Cluster of two species on which apply_filter ran
C8_Witness ==
    /\ cluster_object.filter_calls >= 1
    /\ Cardinality(DOMAIN cluster_object.species_frequency) = 2
    /\ Len(cluster_object.sequences) = 3

C11_WriteOnceFlags ==
    [][ IF pc = "ready"
        THEN /\ pc' = "ready"
             /\ multiple_groups' = multiple_groups
             /\ group' = group
             /\ cluster_object' = cluster_object
             /\ statistics'.group # 0
                    => statistics'.value
                         = basic_group_statistics(Objects'[statistics'.group])
        ELSE /\ \A cl \in AllClusters' :
                    /\ cl.filter_calls <= 1
                    /\ cl.filter_calls = 0
                          => /\ cl.species_compliant = "None"
                             /\ cl.gene_compliant = "None"
             /\ LET before == Retained
                    after == Retained'
                IN /\ IsPrefix(before, after)
                   /\ \A j \in 1..Len(after) :
                        /\ after[j].species_compliant \in {"True", "False"}
                        /\ after[j].gene_compliant \in {"True", "False"}
             /\ statistics'.group = 0
      ]_vars

\* C11 witness: a MultiGroups whose statistics were taken, whose filtered
\* group and summary were written, and which retains a Cluster with one flag
\* True and the other False
C11_Witness ==
    /\ pc = "ready"
    /\ caller = "MultiGroups"
    /\ statistics.group # 0
    /\ filtered_groups.group # 0
    /\ multigroup_base_statistics.written
    /\ \E j \in 1..Len(Retained) :
            /\ Retained[j].species_compliant = "True"
            /\ Retained[j].gene_compliant = "False"

\* C12: once the construction of a Group has returned or has raised, the
\* file object it opened is closed.  Violated: __parse_groups opens the file
\* and never closes it, so it is open when a line raises, and open after the
\* return unless the interpreter has reclaimed it.
C12_HandleReleased ==
    pc \in {"ready", "raised", "MultiGroups"} => groups_file_handle.closed

====
